---------------------------- MODULE Spec2Model ----------------------------
(***************************************************************************)
(* Model of server.py: the account backend (signup, verify_login,         *)
(* get_users, get_stats) over the SQLite tables users and login_attempts. *)
(*                                                                         *)
(* Every request is served by its own handler invocation with its own     *)
(* connection; the handlers of different requests interleave between      *)
(* their SQL statements.  A step that only touches the handler's own      *)
(* data (the checks on the body, sqlite3.connect, hashing, conn.close(),  *)
(* building the response) is taken together with the statement next to    *)
(* it.  Table users is the committed content of the table: a pending      *)
(* INSERT or UPDATE is kept with the handler until its commit, and a      *)
(* statement that needs the write lock waits while another connection     *)
(* holds it.  Storage does not fail in this model; the only exception     *)
(* raised is the sqlite3.IntegrityError of a violated UNIQUE constraint.  *)
(***************************************************************************)
EXTENDS Integers, Sequences, FiniteSets, TLC

(***************************************************************************)
(* Bounds of the model.                                                    *)
(***************************************************************************)
MaxUsers == 2
MaxTime == 1

\* The request handlers that may run at the same time.
Procs == {1, 2}

(***************************************************************************)
(* Characters and strings.  A string is a sequence of one-character        *)
(* strings, so that the validators can inspect it as the regexes do.       *)
(***************************************************************************)
Upper ==
    {"A","B","C","D","E","F","G","H","I","J","K","L","M",
     "N","O","P","Q","R","S","T","U","V","W","X","Y","Z"}
Lower ==
    {"a","b","c","d","e","f","g","h","i","j","k","l","m",
     "n","o","p","q","r","s","t","u","v","w","x","y","z"}
Digit == {"0","1","2","3","4","5","6","7","8","9"}
\* [a-zA-Z0-9_]
WordChar == Upper \cup Lower \cup Digit \cup {"_"}
\* [a-zA-Z0-9._%+-]
LocalChar == Upper \cup Lower \cup Digit \cup {".", "_", "%", "+", "-"}
\* [a-zA-Z0-9.-]
DomainChar == Upper \cup Lower \cup Digit \cup {".", "-"}

\* Positions at which Python's `$` matches: the end of the string, and just
\* before a newline that is the last character.
DollarEnds(s) ==
    {Len(s)} \cup (IF Len(s) > 0 /\ s[Len(s)] = "\n" THEN {Len(s) - 1} ELSE {})

\* re.search(r'[class]', s)
Search(class, s) == \E i \in 1..Len(s) : s[i] \in class

UsernameMinLen == 3
UsernameMaxLen == 20
PasswordMinLen == 8
TldMinLen == 2

validate_username(username) ==
    IF Len(username) < UsernameMinLen \/ Len(username) > UsernameMaxLen
    THEN [ok |-> FALSE, msg |-> "Username must be 3-20 characters"]
    ELSE IF ~ \E e \in DollarEnds(username) :
                /\ e >= 1
                /\ \A i \in 1..e : username[i] \in WordChar
    THEN [ok |-> FALSE,
          msg |-> "Username can only contain letters, numbers, and underscores"]
    ELSE [ok |-> TRUE, msg |-> ""]

\* ^[a-zA-Z0-9._%+-]+@[a-zA-Z0-9.-]+\.[a-zA-Z]{2,}$ : at is the position of
\* the '@', dot the position of the '.' that starts the top-level domain.
EmailMatches(email) ==
    \E e \in DollarEnds(email) : \E at \in 1..e : \E dot \in 1..e :
        /\ at >= 2
        /\ \A i \in 1..(at - 1) : email[i] \in LocalChar
        /\ email[at] = "@"
        /\ dot >= at + 2
        /\ \A i \in (at + 1)..(dot - 1) : email[i] \in DomainChar
        /\ email[dot] = "."
        /\ e - dot >= TldMinLen
        /\ \A i \in (dot + 1)..e : email[i] \in Upper \cup Lower

validate_email(email) ==
    IF ~ EmailMatches(email)
    THEN [ok |-> FALSE, msg |-> "Invalid email format"]
    ELSE [ok |-> TRUE, msg |-> ""]

\* validate_password as it would be without the check for a special
\* character.
validate_passwordWithoutSpecial(password) ==
    IF Len(password) < PasswordMinLen
    THEN [ok |-> FALSE, msg |-> "Password must be at least 8 characters"]
    ELSE IF ~ Search(Upper, password)
    THEN [ok |-> FALSE,
          msg |-> "Password must contain at least one uppercase letter"]
    ELSE IF ~ Search(Lower, password)
    THEN [ok |-> FALSE,
          msg |-> "Password must contain at least one lowercase letter"]
    ELSE IF ~ Search(Digit, password)
    THEN [ok |-> FALSE, msg |-> "Password must contain at least one number"]
    ELSE [ok |-> TRUE, msg |-> ""]

validate_password(password) ==
    IF Len(password) < PasswordMinLen
    THEN [ok |-> FALSE, msg |-> "Password must be at least 8 characters"]
    ELSE IF ~ Search(Upper, password)
    THEN [ok |-> FALSE,
          msg |-> "Password must contain at least one uppercase letter"]
    ELSE IF ~ Search(Lower, password)
    THEN [ok |-> FALSE,
          msg |-> "Password must contain at least one lowercase letter"]
    ELSE IF ~ Search(Digit, password)
    THEN [ok |-> FALSE, msg |-> "Password must contain at least one number"]
    ELSE IF ~ \E i \in 1..Len(password) :
                password[i] \notin Upper \cup Lower \cup Digit
    THEN [ok |-> FALSE,
          msg |-> "Password must contain at least one special character"]
    ELSE [ok |-> TRUE, msg |-> ""]


(***************************************************************************)
(* Password hashing.  PBKDF2-HMAC-SHA256 is modelled as a collision-free   *)
(* digest of (password, salt, iterations): equal digests exactly for equal *)
(* inputs.                                                                 *)
(***************************************************************************)
Iterations == 100000

pbkdf2_hmac(password, salt, iterations) ==
    <<"sha256", password, salt, iterations>>

\* hash_password(password, salt) with the salt given (the caller draws a
\* fresh secrets.token_hex(16) when it has none).
hash_password(password, salt) ==
    [hash |-> pbkdf2_hmac(password, salt, Iterations), salt |-> salt]

\* Values secrets.token_hex(16) may return.
Salts == {"5f", "c3"}

(***************************************************************************)
(* Request inputs.                                                         *)
(***************************************************************************)
Ali == <<"a","l","i">>
Bob == <<"b","o","b">>
MailA == <<"a","@","b",".","c","o">>
MailC == <<"c","@","b",".","c","o">>
Pass1 == <<"A","b","c","d","e","f","1","!">>
Pass2 == <<"Q","w","e","r","t","y","2","#">>

\* SQL NULL / JSON null in the mood column.
MoodNull == "NULL"
\* SQL NULL in a TIMESTAMP column (timestamps are naturals).
NULL == -1

SignupData(username, email, password, mood, agreed) ==
    [op |-> "signup", missing |-> {}, username |-> username, email |-> email,
     password |-> password, mood |-> mood, agreed |-> agreed]

\* Bodies of POST /api/signup that pass every check before the connection is
\* opened: two of them share the username, the email, both or neither.
ValidSignups ==
    { SignupData(Ali, MailA, Pass1, "happy", TRUE),
      SignupData(Bob, MailC, Pass2, "sad", TRUE),
      SignupData(Ali, MailC, Pass1, MoodNull, TRUE) }

\* Bodies that fail one of those checks each.
InvalidSignups ==
    { SignupData(<<"a","b">>, MailA, Pass1, "happy", TRUE),
      SignupData(<<"a","!","c">>, MailA, Pass1, "happy", TRUE),
      SignupData(Ali, <<"a","@","b">>, Pass1, "happy", TRUE),
      SignupData(Ali, MailA, <<"s","h","o","r","t","1","A">>, "happy", TRUE),
      SignupData(Ali, MailA, <<"l","o","n","g","e","n","o","u","g","h">>,
                 "happy", TRUE),
      SignupData(Ali, MailA, Pass1, "happy", FALSE),
      [SignupData(Ali, MailA, Pass1, MoodNull, TRUE)
          EXCEPT !.missing = {"mood"}] }

\* Bodies of POST /api/verify.
VerifyBody(email, password, missing) ==
    [op |-> "verify", missing |-> missing, username |-> <<>>,
     email |-> email, password |-> password, mood |-> MoodNull,
     agreed |-> FALSE]

VerifyData ==
    { VerifyBody(e, pw, {}) : e \in {MailA, MailC}, pw \in {Pass1, Pass2} }
    \cup { VerifyBody(MailA, <<>>, {"password"}) }

SecondsPerDay == 86400
RecentDays == 7
\* date(t): the calendar day of timestamp t.
Date(t) == t \div SecondsPerDay

VARIABLES
    users,           \* rows of table users, committed, in rowid order
    login_attempts,  \* rows of table login_attempts, committed
    now,             \* CURRENT_TIMESTAMP, in seconds
    pc,              \* pc[p]: the statement handler p runs next
    req,             \* req[p]: request.json of the request p serves
    row,             \* row[p]: p's local variables (fetched/pending row)
    conn,            \* conn[p]: p's handler holds an open connection
    writer,          \* handlers whose connection holds the write lock
    leaked,          \* open connections no handler refers to any more
    leakedLock,      \* a leaked connection holds the write lock
    result,          \* the response returned by the step just taken, if any
    registered,      \* history: what successful signups returned
    plaintext,       \* history: plaintext[i] is the password users[i] was
                     \* registered with
    atCall,          \* history: atCall[p]: whether the username and the
                     \* email of p's signup were stored when the call began
    probe            \* a direct call of a validator: its argument and what
                     \* it returned (used by SpecPassword and SpecUsername)

vars == <<users, login_attempts, now, pc, req, row, conn, writer, leaked,
          leakedLock, result, registered, plaintext, atCall, probe>>

NoReq == [op |-> "none", missing |-> {}, username |-> <<>>, email |-> <<>>,
          password |-> <<>>, mood |-> MoodNull, agreed |-> FALSE]
NoResult == [req |-> NoReq, status |-> 0, error |-> "",
             user |-> <<>>, list |-> <<>>, stats |-> <<>>]

\* jsonify({'error': error}), status
Error(status, error) ==
    [status |-> status, error |-> error, user |-> <<>>, list |-> <<>>,
     stats |-> <<>>]

\* except Exception as e: return jsonify({'error': str(e)}), 500
InternalError(e) == Error(500, e)

NotStored == [username |-> FALSE, email |-> FALSE]
NoProbe == [arg |-> <<>>, out |-> [ok |-> FALSE, msg |-> ""]]

\* init_db: both tables are created empty.
Init ==
    /\ users = <<>>
    /\ login_attempts = <<>>
    /\ now = 0
    /\ pc = [p \in Procs |-> "idle"]
    /\ req = [p \in Procs |-> NoReq]
    /\ row = [p \in Procs |-> <<>>]
    /\ conn = [p \in Procs |-> FALSE]
    /\ writer = {}
    /\ leaked = 0
    /\ leakedLock = FALSE
    /\ result = NoResult
    /\ registered = {}
    /\ plaintext = <<>>
    /\ atCall = [p \in Procs |-> NotStored]
    /\ probe = NoProbe

Rows(table) == {table[i] : i \in 1..Len(table)}

\* Whether the username and the email of a signup body are stored.
Stored(data) ==
    [username |-> \E i \in 1..Len(users) : users[i].username = data.username,
     email |-> \E i \in 1..Len(users) : users[i].email = data.email]

\* The write lock of the database file is free.
LockFree == writer = {} /\ ~ leakedLock

\* return jsonify(...), status: handler p ends the request with body data by
\* this response.  open tells whether the connection the handler opened is
\* still open on this path (no conn.close() was called): it then stays open
\* after the return, with nothing referring to it.
Return(p, data, response, open) ==
    /\ result' = [req |-> data, status |-> response.status,
                  error |-> response.error, user |-> response.user,
                  list |-> response.list, stats |-> response.stats]
    /\ pc' = [pc EXCEPT ![p] = "idle"]
    /\ req' = [req EXCEPT ![p] = NoReq]
    /\ row' = [row EXCEPT ![p] = <<>>]
    /\ conn' = [conn EXCEPT ![p] = FALSE]
    /\ leaked' = IF open THEN leaked + 1 ELSE leaked
    /\ atCall' = [atCall EXCEPT ![p] = NotStored]
    /\ UNCHANGED probe

\* Handler p is at this statement, and the response of the last step has
\* gone out (a response goes out before any handler runs on).
At(p, label) == result = NoResult /\ pc[p] = label

\* Handler p goes on to its next statement.
Goto(p, label) ==
    /\ pc' = [pc EXCEPT ![p] = label]
    /\ result' = NoResult
    /\ UNCHANGED <<atCall, probe>>

(***************************************************************************)
(* signup: POST /api/signup                                                *)
(***************************************************************************)
RequiredFields == <<"username", "email", "password", "mood">>

\* f'Missing field: {field}' for the first required field not in the body.
MissingField(data) ==
    LET first == CHOOSE i \in 1..Len(RequiredFields) :
                    /\ RequiredFields[i] \in data.missing
                    /\ \A j \in 1..(i - 1) : RequiredFields[j] \notin data.missing
    IN  CASE RequiredFields[first] = "username" -> "Missing field: username"
          [] RequiredFields[first] = "email" -> "Missing field: email"
          [] RequiredFields[first] = "password" -> "Missing field: password"
          [] RequiredFields[first] = "mood" -> "Missing field: mood"

\* SignupValidation as it would be without the check of agreed_to_terms.
SignupValidationNoTerms(data) ==
    IF \E i \in 1..Len(RequiredFields) : RequiredFields[i] \in data.missing
    THEN MissingField(data)
    ELSE IF ~ validate_username(data.username).ok
    THEN validate_username(data.username).msg
    ELSE IF ~ validate_email(data.email).ok
    THEN validate_email(data.email).msg
    ELSE IF ~ validate_password(data.password).ok
    THEN validate_password(data.password).msg
    ELSE ""

\* The checks signup makes before it opens the connection: the error of the
\* first check that fails, "" when all pass.
SignupValidation(data) ==
    IF \E i \in 1..Len(RequiredFields) : RequiredFields[i] \in data.missing
    THEN MissingField(data)
    ELSE IF ~ validate_username(data.username).ok
    THEN validate_username(data.username).msg
    ELSE IF ~ validate_email(data.email).ok
    THEN validate_email(data.email).msg
    ELSE IF ~ validate_password(data.password).ok
    THEN validate_password(data.password).msg
    ELSE IF ~ data.agreed
    THEN "You must agree to the terms and conditions"
    ELSE ""

\* UsernameExists as it would be did the query look the username up in the
\* email column.
UsernameExistsInEmail(username) == \E u \in Rows(users) : u.email = username

\* SELECT id FROM users WHERE username = ?  ... cursor.fetchone()
UsernameExists(username) == \E u \in Rows(users) : u.username = username

\* SELECT id FROM users WHERE email = ?  ... cursor.fetchone()
EmailExists(email) == \E u \in Rows(users) : u.email = email

\* UniqueViolation as it would be had table users no UNIQUE constraint.
UniqueViolationNone(username, email) == ""

\* UniqueViolation as it would be were only username declared UNIQUE.
UniqueViolationUsernameOnly(username, email) ==
    IF \E u \in Rows(users) : u.username = username
    THEN "UNIQUE constraint failed: users.username"
    ELSE ""

\* The UNIQUE constraints of table users, checked by the INSERT: the message
\* of the sqlite3.IntegrityError raised, "" when the row is accepted.
UniqueViolation(username, email) ==
    IF \E u \in Rows(users) : u.username = username
    THEN "UNIQUE constraint failed: users.username"
    ELSE IF \E u \in Rows(users) : u.email = email
    THEN "UNIQUE constraint failed: users.email"
    ELSE ""

\* The row INSERT INTO users builds: id from AUTOINCREMENT, created_at from
\* DEFAULT CURRENT_TIMESTAMP, last_login NULL, agreed_to_terms True.
NewUser(data, hashed) ==
    [id |-> Len(users) + 1,
     username |-> data.username,
     email |-> data.email,
     password_hash |-> hashed.hash,
     password_salt |-> hashed.salt,
     mood |-> data.mood,
     agreed_to_terms |-> TRUE,
     created_at |-> now,
     last_login |-> NULL]

\* PublicFields as it would be if the handlers selected every column.
PublicFieldsEveryColumn(u) == u

\* The columns signup and get_users select.
PublicFields(u) ==
    [id |-> u.id, username |-> u.username, email |-> u.email,
     mood |-> u.mood, created_at |-> u.created_at]

\* The checks on the body, sqlite3.connect, and the username pre-check.
SignupBegin(p) ==
    /\ At(p, "idle")
    /\ Len(users) < MaxUsers
    /\ \E data \in ValidSignups \cup InvalidSignups :
        IF SignupValidation(data) # ""
        THEN Return(p, data, Error(400, SignupValidation(data)), FALSE)
        ELSE IF UsernameExists(data.username)
        THEN Return(p, data, Error(409, "Username already exists"), FALSE)
        ELSE /\ req' = [req EXCEPT ![p] = data]
             /\ conn' = [conn EXCEPT ![p] = TRUE]
             /\ pc' = [pc EXCEPT ![p] = "su_check_email"]
             /\ result' = NoResult
             /\ atCall' = [atCall EXCEPT ![p] = Stored(data)]
             /\ UNCHANGED <<row, leaked, probe>>
    /\ UNCHANGED <<users, login_attempts, now, writer, leakedLock, registered,
                   plaintext>>

\* The email pre-check.
SignupCheckEmail(p) ==
    /\ At(p, "su_check_email")
    /\ IF EmailExists(req[p].email)
       THEN Return(p, req[p], Error(409, "Email already registered"), FALSE)
       ELSE /\ Goto(p, "su_insert")
            /\ UNCHANGED <<req, row, conn, leaked>>
    /\ UNCHANGED <<users, login_attempts, now, writer, leakedLock, registered,
                   plaintext>>

\* hash_password(data['password']) and the INSERT.  The INSERT opens a
\* transaction and takes the write lock; it waits while another connection
\* holds it.  A violated UNIQUE constraint raises sqlite3.IntegrityError,
\* which the handler catches (except Exception) and answers without closing
\* the connection: its transaction, and the lock, stay open.
SignupInsert(p) ==
    /\ At(p, "su_insert")
    /\ LockFree
    /\ \E salt \in Salts :
        LET hashed == hash_password(req[p].password, salt)
            err == UniqueViolation(req[p].username, req[p].email)
        IN  IF err # ""
            THEN /\ Return(p, req[p], InternalError(err), TRUE)
                 /\ leakedLock' = TRUE
                 /\ UNCHANGED writer
            ELSE /\ row' = [row EXCEPT ![p] = <<NewUser(req[p], hashed)>>]
                 /\ writer' = {p}
                 /\ Goto(p, "su_commit")
                 /\ UNCHANGED <<req, conn, leaked, leakedLock>>
    /\ UNCHANGED <<users, login_attempts, now, registered, plaintext>>

\* conn.commit(); user_id = cursor.lastrowid
SignupCommit(p) ==
    /\ At(p, "su_commit")
    /\ users' = Append(users, row[p][1])
    /\ plaintext' = Append(plaintext, req[p].password)
    /\ writer' = {}
    /\ Goto(p, "su_select")
    /\ UNCHANGED <<login_attempts, now, req, row, conn, leaked, leakedLock,
                   registered>>

\* SELECT ... WHERE id = ?; conn.close(); return ..., 201
SignupSelect(p) ==
    /\ At(p, "su_select")
    /\ LET user == PublicFields(users[row[p][1].id])
       IN  /\ Return(p, req[p], [Error(201, "") EXCEPT !.user = <<user>>],
                     FALSE)
           /\ registered' = registered \cup
                 {[id |-> user.id, username |-> user.username,
                   email |-> user.email, password |-> req[p].password]}
    /\ UNCHANGED <<users, login_attempts, now, writer, leakedLock, plaintext>>

(***************************************************************************)
(* verify_login: POST /api/verify                                          *)
(***************************************************************************)
\* SELECT id, username, email, password_hash, password_salt FROM users
\* WHERE email = ?  ... cursor.fetchone(): the rows found.
SelectByEmail(email) == {u \in Rows(users) : u.email = email}

\* PasswordMatches as it would be did verify_login hash without the stored
\* salt (hash_password then draws a salt of its own).
PasswordMatchesOwnSalt(user, password) ==
    hash_password(password, "00").hash = user.password_hash

\* PasswordMatches as it would be did verify_login not compare the hashes.
PasswordMatchesAlways(user, password) == TRUE

\* input_hash == stored_hash, input_hash recomputed with the stored salt.
PasswordMatches(user, password) ==
    hash_password(password, user.password_salt).hash = user.password_hash

\* UpdateLastLogin as it would be did the UPDATE also set created_at.
UpdateLastLoginAndCreatedAt(table, id, t) ==
    [i \in 1..Len(table) |->
        IF table[i].id = id
        THEN [table[i] EXCEPT !.last_login = t, !.created_at = t]
        ELSE table[i]]

\* UpdateLastLogin as it would be had the UPDATE no WHERE clause.
UpdateLastLoginEveryRow(table, id, t) ==
    [i \in 1..Len(table) |-> [table[i] EXCEPT !.last_login = t]]

\* UPDATE users SET last_login = CURRENT_TIMESTAMP WHERE id = ?
UpdateLastLogin(table, id, t) ==
    [i \in 1..Len(table) |->
        IF table[i].id = id THEN [table[i] EXCEPT !.last_login = t]
        ELSE table[i]]

\* return jsonify({'error': 'User not found'}), 404
UserNotFound == Error(404, "User not found")

\* return jsonify({'error': 'Invalid password'}), 401
InvalidPassword == Error(401, "Invalid password")

\* The check on the body, sqlite3.connect, the SELECT and the comparison of
\* the hashes.
VerifyBegin(p) ==
    /\ At(p, "idle")
    /\ \E data \in VerifyData :
        IF "email" \in data.missing \/ "password" \in data.missing
        THEN Return(p, data, Error(400, "Missing email or password"), FALSE)
        ELSE IF SelectByEmail(data.email) = {}
        THEN Return(p, data, UserNotFound, FALSE)
        ELSE LET user == CHOOSE u \in SelectByEmail(data.email) : TRUE
             IN  IF ~ PasswordMatches(user, data.password)
                 THEN Return(p, data, InvalidPassword, FALSE)
                 ELSE /\ req' = [req EXCEPT ![p] = data]
                      /\ row' = [row EXCEPT ![p] = <<user>>]
                      /\ conn' = [conn EXCEPT ![p] = TRUE]
                      /\ Goto(p, "vf_update")
                      /\ UNCHANGED leaked
    /\ UNCHANGED <<users, login_attempts, now, writer, leakedLock, registered,
                   plaintext>>

\* The UPDATE: it opens a transaction and takes the write lock, waiting
\* while another connection holds it.  CURRENT_TIMESTAMP is read here.
VerifyUpdate(p) ==
    /\ At(p, "vf_update")
    /\ LockFree
    /\ writer' = {p}
    /\ row' = [row EXCEPT ![p] = <<row[p][1], now>>]
    /\ Goto(p, "vf_commit")
    /\ UNCHANGED <<users, login_attempts, now, req, conn, leaked, leakedLock,
                   registered, plaintext>>

\* conn.commit(); conn.close(); return the user's id, username and email
VerifyCommit(p) ==
    /\ At(p, "vf_commit")
    /\ users' = UpdateLastLogin(users, row[p][1].id, row[p][2])
    /\ writer' = {}
    /\ Return(p, req[p],
              [Error(200, "") EXCEPT
                 !.user = << [id |-> row[p][1].id,
                              username |-> row[p][1].username,
                              email |-> row[p][1].email] >>],
              FALSE)
    /\ UNCHANGED <<login_attempts, now, leakedLock, registered, plaintext>>

(***************************************************************************)
(* get_users: GET /api/users                                               *)
(***************************************************************************)
\* The orders in which SELECT ... ORDER BY created_at DESC may return the
\* rows: every row once, created_at never increasing; rows with the same
\* created_at come in any order.
OrderByCreatedAtDesc(table) ==
    {s \in [1..Len(table) -> Rows(table)] :
        /\ \A i, j \in 1..Len(table) : i # j => s[i] # s[j]
        /\ \A i, j \in 1..Len(table) :
              i < j => s[i].created_at >= s[j].created_at}

\* sqlite3.connect, the SELECT, conn.close() and the answer.
GetUsers(p) ==
    /\ At(p, "idle")
    /\ \E fetched \in OrderByCreatedAtDesc(users) :
        Return(p, [NoReq EXCEPT !.op = "users"],
               [Error(200, "") EXCEPT
                  !.list = [i \in 1..Len(fetched) |-> PublicFields(fetched[i])]],
               FALSE)
    /\ UNCHANGED <<users, login_attempts, now, writer, leakedLock, registered,
                   plaintext>>

(***************************************************************************)
(* get_stats: GET /api/stats                                               *)
(***************************************************************************)
\* SELECT COUNT(*) FROM users
CountUsers(table) == Len(table)

\* SELECT mood, COUNT(*) FROM users WHERE mood IS NOT NULL GROUP BY mood,
\* as the dict {mood: count} the handler builds from it.
MoodDistribution(table) ==
    [m \in {u.mood : u \in {r \in Rows(table) : r.mood # MoodNull}} |->
        Cardinality({i \in 1..Len(table) : table[i].mood = m})]

\* SELECT COUNT(*) FROM users
\* WHERE date(created_at) >= date('now', '-7 days')
RecentSignups(table, t) ==
    Cardinality({i \in 1..Len(table) :
        Date(table[i].created_at) >= Date(t - RecentDays * SecondsPerDay)})

\* sqlite3.connect and the first SELECT.
StatsTotal(p) ==
    /\ At(p, "idle")
    /\ req' = [req EXCEPT ![p] = [NoReq EXCEPT !.op = "stats"]]
    /\ conn' = [conn EXCEPT ![p] = TRUE]
    /\ row' = [row EXCEPT ![p] = <<CountUsers(users)>>]
    /\ Goto(p, "st_mood")
    /\ UNCHANGED <<users, login_attempts, now, writer, leaked, leakedLock,
                   registered, plaintext>>

\* The second SELECT.
StatsMood(p) ==
    /\ At(p, "st_mood")
    /\ row' = [row EXCEPT ![p] = <<row[p][1], MoodDistribution(users)>>]
    /\ Goto(p, "st_recent")
    /\ UNCHANGED <<users, login_attempts, now, req, conn, writer, leaked,
                   leakedLock, registered, plaintext>>

\* The third SELECT, conn.close() and the answer.
StatsRecent(p) ==
    /\ At(p, "st_recent")
    /\ Return(p, req[p],
              [Error(200, "") EXCEPT
                 !.stats = << [total_users |-> row[p][1],
                               recent_signups |-> RecentSignups(users, now),
                               mood_distribution |-> row[p][2]] >>],
              FALSE)
    /\ UNCHANGED <<users, login_attempts, now, writer, leakedLock, registered,
                   plaintext>>

(***************************************************************************)
(* The runtime and the clock.                                              *)
(***************************************************************************)
\* The runtime reclaims a connection object nothing refers to: it is closed,
\* its open transaction rolled back and its lock released.
Finalize ==
    /\ result = NoResult
    /\ leaked > 0
    /\ leaked' = leaked - 1
    /\ leakedLock' = FALSE
    /\ result' = NoResult
    /\ UNCHANGED <<users, login_attempts, now, pc, req, row, conn, writer,
                   registered, plaintext, atCall, probe>>

\* Time passes.
Tick ==
    /\ result = NoResult
    /\ now < MaxTime
    /\ now' = now + 1
    /\ result' = NoResult
    /\ UNCHANGED <<users, login_attempts, pc, req, row, conn, writer, leaked,
                   leakedLock, registered, plaintext, atCall, probe>>

\* The response of the step just taken goes out to the client.
Respond ==
    /\ result # NoResult
    /\ result' = NoResult
    /\ UNCHANGED <<users, login_attempts, now, pc, req, row, conn, writer,
                   leaked, leakedLock, registered, plaintext, atCall, probe>>

Next ==
    \/ \E p \in Procs :
        \/ SignupBegin(p)
        \/ SignupCheckEmail(p)
        \/ SignupInsert(p)
        \/ SignupCommit(p)
        \/ SignupSelect(p)
        \/ VerifyBegin(p)
        \/ VerifyUpdate(p)
        \/ VerifyCommit(p)
        \/ GetUsers(p)
        \/ StatsTotal(p)
        \/ StatsMood(p)
        \/ StatsRecent(p)
    \/ Finalize
    \/ Tick
    \/ Respond

Spec == Init /\ [][Next]_vars

(***************************************************************************)
(* Storage faults.  Any statement run on the connection may raise          *)
(* sqlite3.OperationalError; every handler catches it by 'except Exception *)
(* as e' and answers with str(e).                                          *)
(***************************************************************************)
MaxLeaked == 2        \* connections left open at a time

\* str(e) of the faults taken into account.
FaultDetails == {"database is locked", "disk I/O error"}

\* The request bodies that reach the first statement of a handler.
FirstStatementData ==
    ValidSignups \cup {data \in VerifyData : data.missing = {}}
        \cup {[NoReq EXCEPT !.op = "users"], [NoReq EXCEPT !.op = "stats"]}

\* The first statement of a handler raises: the connection it has just
\* opened is not closed.
FirstStatementFault(p, e) ==
    /\ At(p, "idle")
    /\ leaked < MaxLeaked
    /\ \E data \in FirstStatementData :
          Return(p, data, InternalError(e), TRUE)
    /\ UNCHANGED <<users, login_attempts, now, writer, leakedLock, registered,
                   plaintext>>

\* A later statement of handler p, its commit included, raises: the
\* connection is not closed and keeps the transaction and the lock it has.
StatementFault(p, e) ==
    /\ result = NoResult
    /\ pc[p] # "idle"
    /\ leaked < MaxLeaked
    /\ Return(p, req[p], InternalError(e), TRUE)
    /\ writer' = writer \ {p}
    /\ leakedLock' = (leakedLock \/ p \in writer)
    /\ UNCHANGED <<users, login_attempts, now, registered, plaintext>>

\* Faults do not depend on how handlers interleave: one handler runs at a
\* time here.
NextFault ==
    \/ SignupBegin(1)
    \/ SignupCheckEmail(1)
    \/ SignupInsert(1)
    \/ SignupCommit(1)
    \/ SignupSelect(1)
    \/ VerifyBegin(1)
    \/ VerifyUpdate(1)
    \/ VerifyCommit(1)
    \/ GetUsers(1)
    \/ StatsTotal(1)
    \/ StatsMood(1)
    \/ StatsRecent(1)
    \/ Finalize
    \/ Tick
    \/ Respond
    \/ \E e \in FaultDetails :
        \/ FirstStatementFault(1, e)
        \/ StatementFault(1, e)

SpecFault == Init /\ [][NextFault]_vars

(***************************************************************************)
(* Days passing: signup and get_stats, one handler at a time, with a clock *)
(* that advances by half days.                                             *)
(***************************************************************************)
MaxDays == 8          \* the clock stops at the start of this day

\* Half a day passes.
TickHalfDay ==
    /\ result = NoResult
    /\ Date(now) < MaxDays
    /\ now' = now + SecondsPerDay \div 2
    /\ result' = NoResult
    /\ UNCHANGED <<users, login_attempts, pc, req, row, conn, writer, leaked,
                   leakedLock, registered, plaintext, atCall, probe>>

NextDays ==
    \/ SignupBegin(1)
    \/ SignupCheckEmail(1)
    \/ SignupInsert(1)
    \/ SignupCommit(1)
    \/ SignupSelect(1)
    \/ StatsTotal(1)
    \/ StatsMood(1)
    \/ StatsRecent(1)
    \/ TickHalfDay
    \/ Respond

SpecDays == Init /\ [][NextDays]_vars

(***************************************************************************)
(* The validators called directly.  The argument grows by one character    *)
(* per step, and the validator is applied to each argument.                *)
(***************************************************************************)
MaxPasswordLen == 9   \* longest password tried
MaxRuns == 4          \* most runs of equal characters in a password tried

\* The characters passwords are built from: one of each class of
\* validate_password.
PasswordChars == {"A", "a", "1", "!"}

\* The number of runs of equal characters in s.
Runs(s) ==
    IF s = <<>> THEN 0
    ELSE 1 + Cardinality({i \in 1..(Len(s) - 1) : s[i] # s[i + 1]})

\* validate_password(password) is called with one more character.
ValidatePassword(c) ==
    LET password == Append(probe.arg, c)
    IN  /\ Len(password) <= MaxPasswordLen
        /\ Runs(password) <= MaxRuns
        /\ probe' = [arg |-> password, out |-> validate_password(password)]
        /\ UNCHANGED <<users, login_attempts, now, pc, req, row, conn, writer,
                       leaked, leakedLock, result, registered, plaintext,
                       atCall>>

NextPassword == \E c \in PasswordChars : ValidatePassword(c)

SpecPassword == Init /\ [][NextPassword]_vars

MaxUsernameLen == 21  \* longest username tried
MaxOther == 2         \* most characters other than "a" in a username tried

\* The characters usernames are built from: a letter, and next to it an
\* uppercase letter, a digit, the underscore, a punctuation mark and the
\* newline.
UsernameChars == {"a", "Z", "7", "_", "!", "\n"}

\* validate_username(username) is called with one more character.
ValidateUsername(c) ==
    LET username == Append(probe.arg, c)
    IN  /\ Len(username) <= MaxUsernameLen
        /\ Len(SelectSeq(username, LAMBDA x : x # "a")) <= MaxOther
        /\ probe' = [arg |-> username, out |-> validate_username(username)]
        /\ UNCHANGED <<users, login_attempts, now, pc, req, row, conn, writer,
                       leaked, leakedLock, result, registered, plaintext,
                       atCall>>

NextUsername == \E c \in UsernameChars : ValidateUsername(c)

SpecUsername == Init /\ [][NextUsername]_vars

(***************************************************************************)
(* Properties.                                                             *)
(***************************************************************************)
\* A response is being returned to a request of this kind.
Returned(op) == result # NoResult /\ result.req.op = op

\* C1: in every reachable state no two stored users have the same username
\* and no two stored users have the same email.
C1_UsernameAndEmailUnique ==
    \A i, j \in 1..Len(users) :
        i # j => /\ users[i].username # users[j].username
                 /\ users[i].email # users[j].email

\* C1: two users are stored and a register that collides with one of them
\* has just been turned down.
C1_Witness ==
    /\ Len(users) = 2
    /\ Returned("signup")
    /\ result.status = 409

\* Handlers whose INSERT has been accepted.
Inserted(p) == pc[p] \in {"su_commit", "su_select"}

\* C2: of the register calls that share a username or an email, at most one
\* persists a user, also when they run their pre-checks before either
\* inserts: no two accepted INSERTs, in flight or answered with success,
\* share a username or an email, and the store holds no duplicate.
C2_AtMostOneRacingRegisterPersists ==
    /\ \A a, b \in registered :
          (a.username = b.username \/ a.email = b.email) => a = b
    /\ \A p, q \in Procs :
          (p # q /\ Inserted(p) /\ Inserted(q)) =>
              /\ req[p].username # req[q].username
              /\ req[p].email # req[q].email
    /\ \A p \in Procs : \A a \in registered :
          Inserted(p) =>
              /\ req[p].username # a.username
              /\ req[p].email # a.email
    /\ \A i, j \in 1..Len(users) :
          (users[i].username = users[j].username
             \/ users[i].email = users[j].email) => i = j

\* C2: a register that passed both pre-checks has had its INSERT rejected by
\* a UNIQUE constraint: the user of the call it raced with is stored.
C2_Witness ==
    /\ Returned("signup")
    /\ result.status = 500
    /\ \E u \in Rows(users) :
          u.username = result.req.username \/ u.email = result.req.email

\* C3: once a register has succeeded, every later verify with its email and
\* password succeeds and returns the id, username and email that the
\* register returned, whatever calls ran in between.
C3_RegisterThenVerifySucceeds ==
    (Returned("verify") /\ result.req.missing = {}) =>
        \A a \in registered :
            (a.email = result.req.email /\ a.password = result.req.password)
            => /\ result.status = 200
               /\ result.user = << [id |-> a.id, username |-> a.username,
                                    email |-> a.email] >>

\* C3: a verify with the credentials of an earlier successful register is
\* answered, after a second user has been registered.
C3_Witness ==
    /\ Returned("verify")
    /\ Len(users) = 2
    /\ Cardinality(registered) = 2
    /\ \E a \in registered :
          /\ a.email = result.req.email
          /\ a.password = result.req.password
          /\ a.id = 1

\* The rows of users with this email.
Known(email) == {i \in 1..Len(users) : users[i].email = email}

\* C4: a verify fails with UserNotFound (404) when no stored user has the
\* email and with InvalidCredentials (401) when a user has the email but was
\* registered with another password; in both cases table users is left as
\* it was, last_login included.
C4_VerifyFailuresChangeNothing ==
    [][ (result' # NoResult /\ result'.req.op = "verify"
           /\ result'.req.missing = {})
        => /\ Known(result'.req.email) = {}
              => /\ result'.status = 404
                 /\ result'.error = "User not found"
                 /\ users' = users
           /\ (\E i \in Known(result'.req.email) :
                  plaintext[i] # result'.req.password)
              => /\ result'.status = 401
                 /\ result'.error = "Invalid password"
                 /\ users' = users ]_vars

\* C4: a verify with a wrong password has been turned down while a user
\* that has logged in before is stored.
C4_Witness ==
    /\ Returned("verify")
    /\ result.status = 401
    /\ \E i \in 1..Len(users) : users[i].last_login # NULL

\* The handlers that return in this step after an earlier step of theirs.
Returning == {p \in Procs : pc[p] # "idle" /\ pc'[p] = "idle"}

\* C5: a register with otherwise valid input fails with DuplicateUsername
\* when the username was stored when the call began, also when the email
\* was stored too, and with DuplicateEmail when only the email was; in both
\* cases table users is left as it was.
C5_DuplicateErrors ==
    [][ (result' # NoResult /\ result'.req.op = "signup"
           /\ result'.req.missing = {}
           /\ validate_username(result'.req.username).ok
           /\ validate_email(result'.req.email).ok
           /\ validate_password(result'.req.password).ok
           /\ result'.req.agreed)
        => LET was == IF Returning = {} THEN Stored(result'.req)
                      ELSE atCall[CHOOSE p \in Returning : TRUE]
           IN  /\ was.username
                  => /\ result'.status = 409
                     /\ result'.error = "Username already exists"
                     /\ users' = users
               /\ (~ was.username /\ was.email)
                  => /\ result'.status = 409
                     /\ result'.error = "Email already registered"
                     /\ users' = users
               /\ result'.error = "Email already registered"
                  => ~ was.username ]_vars

\* C5: a register whose email is stored and whose username is not has been
\* turned down.
C5_Witness ==
    /\ Returned("signup")
    /\ result.status = 409
    /\ \E u \in Rows(users) : u.email = result.req.email
    /\ \A u \in Rows(users) : u.username # result.req.username

\* A signup body that passes the three validators and agrees to the terms.
Acceptable(data) ==
    /\ data.missing = {}
    /\ validate_username(data.username).ok
    /\ validate_email(data.email).ok
    /\ validate_password(data.password).ok
    /\ data.agreed

\* C6: every stored user has a username and an email the validators accept,
\* was registered with a password validate_password accepts and has
\* agreed_to_terms true; a row is added only for a register call whose body
\* passes the validators and agrees to the terms; a register call that does
\* not is answered 400 and adds no user.
C6_OnlyValidatedRegistersCreate ==
    [][ /\ users' # users
              => \A i \in 1..Len(users') :
                    /\ validate_username(users'[i].username).ok
                    /\ validate_email(users'[i].email).ok
                    /\ validate_password(plaintext'[i]).ok
                    /\ users'[i].agreed_to_terms = TRUE
        /\ Len(users') # Len(users)
              => \E p \in Procs :
                    /\ req[p].op = "signup"
                    /\ Acceptable(req[p])
                    /\ Len(users') = Len(users) + 1
                    /\ SubSeq(users', 1, Len(users)) = users
                    /\ users'[Len(users')].username = req[p].username
                    /\ users'[Len(users')].email = req[p].email
        /\ (result' # NoResult /\ result'.req.op = "signup"
              /\ ~ Acceptable(result'.req))
              => /\ result'.status = 400
                 /\ users' = users ]_vars

\* C6: a register that did not agree to the terms has been turned down
\* while a user is stored.
C6_Witness ==
    /\ Returned("signup")
    /\ result.status = 400
    /\ ~ result.req.agreed
    /\ Len(users) >= 1

\* C7: no step deletes a stored user or changes any of its fields other
\* than last_login.
C7_UsersImmutableExceptLastLogin ==
    [][ /\ Len(users') >= Len(users)
        /\ \A i \in 1..Len(users) :
              users'[i] = [users[i] EXCEPT !.last_login = users'[i].last_login]
      ]_vars

\* C7: two users are stored and the first has logged in after the second
\* was registered.
C7_Witness ==
    /\ Len(users) = 2
    /\ users[1].last_login # NULL
    /\ users[1].last_login >= users[2].created_at
    /\ Returned("verify")

\* C8: a successful verify sets last_login of the verified user, and of no
\* other, to the time its UPDATE read from the clock; last_login is NULL
\* when a user is created, changes only by a successful verify of that user
\* and is never NULL again afterwards.
C8_LastLogin ==
    [][ /\ \A p \in Procs :
              (pc[p] = "vf_update" /\ pc'[p] = "vf_commit")
              => row'[p][2] = now
        /\ (result' # NoResult /\ result'.req.op = "verify"
              /\ result'.status = 200)
              => \E p \in Returning :
                    /\ Len(users') = Len(users)
                    /\ \A i \in 1..Len(users) :
                          IF users[i].id = result'.user[1].id
                          THEN /\ users'[i].last_login = row[p][2]
                               /\ users'[i].last_login # NULL
                               /\ users'[i].last_login <= now
                               /\ users[i].email = result'.req.email
                          ELSE users'[i].last_login = users[i].last_login
        /\ \A i \in 1..Len(users) :
              users'[i].last_login # users[i].last_login
              => /\ result' # NoResult
                 /\ result'.req.op = "verify"
                 /\ result'.status = 200
                 /\ result'.user[1].id = users[i].id
        /\ \A i \in 1..Len(users) :
              users[i].last_login # NULL => users'[i].last_login # NULL
        /\ \A i \in (Len(users) + 1)..Len(users') :
              users'[i].last_login = NULL ]_vars

\* C8: a verify has just succeeded for one of two stored users; the other
\* has never logged in.
C8_Witness ==
    /\ Returned("verify")
    /\ result.status = 200
    /\ Len(users) = 2
    /\ \E i, j \in 1..2 :
          /\ users[i].id = result.user[1].id
          /\ users[i].last_login # NULL
          /\ users[j].last_login = NULL

\* C9: every verify call, whether answered 200, 404 or 401, appends exactly
\* one row to login_attempts, carrying the attempted email and the success
\* flag of the call.
C9_EveryVerifyRecordsAttempt ==
    [][ (result' # NoResult /\ result'.req.op = "verify"
           /\ result'.req.missing = {})
        => /\ Len(login_attempts') = Len(login_attempts) + 1
           /\ SubSeq(login_attempts', 1, Len(login_attempts)) = login_attempts
           /\ login_attempts'[Len(login_attempts')].email = result'.req.email
           /\ login_attempts'[Len(login_attempts')].success
                 = (result'.status = 200) ]_vars

\* C10: no connection is left open by a call that has returned: every open
\* connection belongs to a handler that is still running.
C10_ConnectionsClosedOnReturn ==
    /\ leaked = 0
    /\ \A p \in Procs : pc[p] = "idle" => ~ conn[p]


\* The request keys and columns that hold a password or what is derived
\* from it.
SecretFields == {"password", "password_hash", "password_salt"}

\* C11: no response of signup, verify_login, get_users or get_stats, with
\* whatever status, carries a field password, password_hash or password_salt
\* in its user object, in a row of its user list or in its statistics, and
\* its error text is no stored salt; and no stored row has a password column
\* or holds the plaintext password in place of the hash.
C11_NoSecretReturnedOrStored ==
    /\ \A i \in 1..Len(result.user) :
          DOMAIN result.user[i] \cap SecretFields = {}
    /\ \A i \in 1..Len(result.list) :
          DOMAIN result.list[i] \cap SecretFields = {}
    /\ \A i \in 1..Len(result.stats) :
          DOMAIN result.stats[i] \cap SecretFields = {}
    /\ \A i \in 1..Len(users) :
          /\ result.error # users[i].password_salt
          /\ "password" \notin DOMAIN users[i]
          /\ users[i].password_hash # plaintext[i]

\* C11: get_users answers with two rows while two users, each with a hash
\* and a salt, are stored.
C11_Witness ==
    /\ Returned("users")
    /\ Len(result.list) = 2
    /\ \A i \in 1..2 : users[i].password_salt \in Salts

Visible ==
    [status |-> result.status, error |-> result.error, user |-> result.user,
     list |-> result.list, stats |-> result.stats]

\* C13: what a client sees of a failed verify is the same whether the email
\* is unknown or the email is known and the password wrong: the response is
\* the one given for an unknown email and the one given for a wrong password.
C13_FailedVerifyHidesRegistration ==
    (Returned("verify") /\ result.req.missing = {} /\ result.status # 200)
        => Visible = UserNotFound /\ Visible = InvalidPassword

\* The checks of a password in the order length, uppercase, lowercase,
\* digit, special: whether s fails each, and the error of each.
PasswordFailures(s) ==
    << Len(s) < 8,
       Len(SelectSeq(s, LAMBDA c : c \in Upper)) = 0,
       Len(SelectSeq(s, LAMBDA c : c \in Lower)) = 0,
       Len(SelectSeq(s, LAMBDA c : c \in Digit)) = 0,
       Len(SelectSeq(s, LAMBDA c : c \notin Upper \cup Lower \cup Digit)) = 0 >>

PasswordErrors ==
    << "Password must be at least 8 characters",
       "Password must contain at least one uppercase letter",
       "Password must contain at least one lowercase letter",
       "Password must contain at least one number",
       "Password must contain at least one special character" >>

\* C15: validate_password(s) succeeds exactly when s fails none of the five
\* checks (at least 8 characters, an uppercase letter, a lowercase letter, a
\* digit, a character that is neither letter nor digit), and when it fails
\* its error is that of the first check that fails, in that order.
C15_ValidatePassword ==
    probe # NoProbe =>
        LET failed == {k \in 1..5 : PasswordFailures(probe.arg)[k]}
        IN  /\ probe.out.ok <=> failed = {}
            /\ failed # {} =>
                  \E k \in failed :
                      /\ \A j \in failed : k <= j
                      /\ probe.out.msg = PasswordErrors[k]

\* C15: a password of 8 characters with letters of both cases, without digit
\* and without special character, has been refused for the missing digit.
C15_Witness ==
    /\ probe # NoProbe
    /\ PasswordFailures(probe.arg) = <<FALSE, FALSE, FALSE, TRUE, TRUE>>
    /\ ~ probe.out.ok
    /\ probe.out.msg = PasswordErrors[4]


\* C16: validate_username(s) succeeds exactly when s has 3 to 20 characters
\* and every character of s, the last one included, is an ASCII letter, a
\* digit or the underscore.
C16_ValidateUsername ==
    probe # NoProbe =>
        (probe.out.ok <=>
            /\ Len(probe.arg) >= 3
            /\ Len(probe.arg) <= 20
            /\ \A i \in 1..Len(probe.arg) :
                  probe.arg[i] \in Upper \cup Lower \cup Digit \cup {"_"})

\* C17: the list get_users returns holds every stored user exactly once, and
\* a user registered after another (users is in order of registration) comes
\* before it, whether or not the two were created in the same second.
C17_ListNewestFirst ==
    Returned("users") =>
        /\ Len(result.list) = Len(users)
        /\ \A k \in 1..Len(users) :
              Cardinality({i \in 1..Len(result.list) :
                              result.list[i].id = users[k].id}) = 1
        /\ \A a, b \in 1..Len(users) :
              a > b =>
                  \E i, j \in 1..Len(result.list) :
                      /\ i < j
                      /\ result.list[i].id = users[a].id
                      /\ result.list[j].id = users[b].id

\* The sum of the counts of a distribution over the moods in S.
RECURSIVE SumOver(_, _)
SumOver(f, S) ==
    IF S = {} THEN 0
    ELSE LET m == CHOOSE x \in S : TRUE IN f[m] + SumOver(f, S \ {m})

C19_RecentSignups ==
    Returned("stats") =>
        result.stats[1].recent_signups
            = Cardinality({i \in 1..Len(users) :
                              /\ Date(users[i].created_at) <= Date(now)
                              /\ Date(now) - Date(users[i].created_at) < 7})
=============================================================================
